---- MODULE Spec2Model ----
(***************************************************************************)
(* Model of cpp/tensorrt_llm/common/cudaDriverWrapper.cpp:                 *)
(*   - CUDADriverWrapper::getInstance (weak_ptr singleton, double-checked  *)
(*     locking), the constructor (dllOpen + 25 dllGetSym) and destructor   *)
(*     (dllClose), interleaved over several threads;                       *)
(*   - the forwarding methods over a stub driver library;                  *)
(*   - cuLaunchKernelEx and stringify_launch_config.                       *)
(***************************************************************************)
EXTENDS Integers, Sequences, FiniteSets, TLC

(* ---------------- bounds ---------------- *)
NThreads == 2
MaxInst == 3

Threads == 1..NThreads
InstIds == 1..MaxInst

(* ---------------- the dynamic library ---------------- *)
NullHandle == 0
NullSym == <<0, "">>
Null == 0
NullRef == [ptr |-> Null, cb |-> Null]

\* The constructor's table, in source order: <<member slot, exported symbol>>.
SymbolTable ==
  << <<"_cuGetErrorName", "cuGetErrorName">>,
     <<"_cuGetErrorString", "cuGetErrorString">>,
     <<"_cuFuncSetAttribute", "cuFuncSetAttribute">>,
     <<"_cuLinkComplete", "cuLinkComplete">>,
     <<"_cuModuleUnload", "cuModuleUnload">>,
     <<"_cuLinkDestroy", "cuLinkDestroy">>,
     <<"_cuModuleLoadData", "cuModuleLoadData">>,
     <<"_cuLinkCreate", "cuLinkCreate_v2">>,
     <<"_cuModuleGetFunction", "cuModuleGetFunction">>,
     <<"_cuModuleGetGlobal", "cuModuleGetGlobal_v2">>,
     <<"_cuLibraryGetKernel", "cuLibraryGetKernel">>,
     <<"_cuLibraryLoadData", "cuLibraryLoadData">>,
     <<"_cuLibraryGetGlobal", "cuLibraryGetGlobal">>,
     <<"_cuLibraryUnload", "cuLibraryUnload">>,
     <<"_cuKernelSetAttribute", "cuKernelSetAttribute">>,
     <<"_cuCtxGetDevice", "cuCtxGetDevice">>,
     <<"_cuLinkAddFile", "cuLinkAddFile_v2">>,
     <<"_cuLinkAddData", "cuLinkAddData_v2">>,
     <<"_cuLaunchCooperativeKernel", "cuLaunchCooperativeKernel">>,
     <<"_cuLaunchKernel", "cuLaunchKernel">>,
     <<"_cuLaunchKernelEx", "cuLaunchKernelEx">>,
     <<"_cuTensorMapEncodeTiled", "cuTensorMapEncodeTiled">>,
     <<"_cuMemcpyDtoH", "cuMemcpyDtoH_v2">>,
     <<"_cuDeviceGetAttribute", "cuDeviceGetAttribute">>,
     <<"_cuOccupancyMaxActiveClusters", "cuOccupancyMaxActiveClusters">> >>

NumSymbols == Len(SymbolTable)
Slots == {SymbolTable[i][1] : i \in 1..NumSymbols}

\* The exported name the constructor passes to load_sym for a member slot.
ExportedName(slot) ==
  LET i == CHOOSE j \in 1..NumSymbols : SymbolTable[j][1] = slot
  IN SymbolTable[i][2]

\* Symbols a driver library may export: the bound ones plus the legacy
\* unsuffixed entry points that coexist with their "_v2" versions.
LegacyNames ==
  {"cuLinkCreate", "cuModuleGetGlobal", "cuLinkAddFile", "cuLinkAddData", "cuMemcpyDtoH"}
BoundNames == {SymbolTable[i][2] : i \in 1..NumSymbols}
FullDriver == BoundNames \cup LegacyNames
\* An older driver lacks the newer entry points.
OldDriver ==
  FullDriver \ {"cuLaunchKernelEx", "cuTensorMapEncodeTiled", "cuLibraryGetKernel",
                "cuLibraryLoadData", "cuLibraryGetGlobal", "cuLibraryUnload",
                "cuKernelSetAttribute", "cuOccupancyMaxActiveClusters"}
LibVariants == {FullDriver, OldDriver}

\* dllGetSym / load_sym: the address of an exported symbol, or null.
load_sym(handle, name, exports) ==
  IF name \in exports THEN <<handle, name>> ELSE NullSym

\* Constructor body after the handle check: every slot is assigned.
\* (variant that binds only the first slot)
LoadSymTable_Lazy(handle, exports) ==
  [s \in Slots |-> IF s = "_cuGetErrorName"
                   THEN load_sym(handle, ExportedName(s), exports) ELSE NullSym]
LoadSymTable(handle, exports) ==
  [s \in Slots |-> load_sym(handle, ExportedName(s), exports)]

\* TLLM_CHECK_WITH_INFO(handle != nullptr, ...): the checked condition.
\* (variant that accepts any handle)
HandleOk_NoCheck(h) == TRUE
HandleOk(h) == h # NullHandle

\* The effect of a failed TLLM_CHECK_WITH_INFO: a fatal, process-level
\* assertion failure (the value 'aborted' takes).
FatalCheckFailure == "open"
\* TLLM_CHECK_DEBUG_WITH_INFO(cond, ...): enforced in debug builds only.
DebugCheckFires(debugBuild, cond) == debugBuild /\ ~cond

(* ---------------- state ---------------- *)
VARIABLES
  pc,         \* per thread: position in getInstance / caller
  ref,        \* per thread: local 'result', then the caller's shared_ptr
  cbRead,     \* per thread: control block read by the unlocked lock()
  startOpens, \* per thread: number of instances constructed when the call began
  startExpired, \* per thread: every instance built so far was destroyed when the call began
  constructedBy, \* per thread: id of the instance this call constructed, or Null
  instance,   \* static weak_ptr: [ptr, cb]
  mutex,      \* static mutex: owner thread or 0
  use,        \* control block strong count
  cbst,       \* control block: "none" | "live" | "freed"
  obj,        \* wrapper objects: [state, handle, syms]
  closes,     \* number of dllClose calls per handle (0 = null handle)
  nOpenAttempts, \* dllOpen calls
  nSymCalls,  \* dllGetSym calls
  aborted,    \* process terminated: "" | "open" | "crash"
  exported,   \* symbols exported by the installed driver library
  usedClosed, \* a holder has called a forwarding method on an instance whose handle is closed
  call,       \* the holder's last forwarding call, as the driver library observed it
  trace       \* what that call handed to the logger: [cfg, text]

vars == <<pc, ref, cbRead, startOpens, startExpired, constructedBy, instance, mutex,
          use, cbst, obj, closes, nOpenAttempts, nSymCalls, aborted, exported,
          usedClosed, call, trace>>

fwdvars == <<call, trace>>

NoTrace == [cfg |-> 0, text |-> <<>>]

NoCall == [method |-> "", sym |-> "", argsIn |-> <<>>, argsOut |-> <<>>,
           stubRc |-> 0, ret |-> 0, debug |-> FALSE, checkFired |-> FALSE]

NoObj == [state |-> "none", handle |-> NullHandle, syms |-> [s \in Slots |-> NullSym]]

nOpenOk == Cardinality({k \in InstIds : obj[k].state # "none"})

Init ==
  /\ pc = [t \in Threads |-> "idle"]
  /\ ref = [t \in Threads |-> NullRef]
  /\ cbRead = [t \in Threads |-> Null]
  /\ startOpens = [t \in Threads |-> 0]
  /\ startExpired = [t \in Threads |-> FALSE]
  /\ constructedBy = [t \in Threads |-> Null]
  /\ instance = NullRef
  /\ mutex = 0
  /\ use = [k \in InstIds |-> 0]
  /\ cbst = [k \in InstIds |-> "none"]
  /\ obj = [k \in InstIds |-> NoObj]
  /\ closes = [h \in 0..MaxInst |-> 0]
  /\ nOpenAttempts = 0
  /\ nSymCalls = 0
  /\ aborted = ""
  /\ exported = FullDriver
  /\ usedClosed = FALSE
  /\ call = NoCall
  /\ trace = NoTrace

(* ---------------- getInstance ---------------- *)

\* weak_ptr::lock() on a control block nobody is modifying:
\* a new strong reference if the use count is non-zero, else null.
\* (variant that ignores the use count)
LockResult_NoExpiry(w) ==
  IF w.cb # Null THEN [ptr |-> w.ptr, cb |-> w.cb] ELSE NullRef
LockResult(w) ==
  IF w.cb # Null /\ use[w.cb] > 0 THEN [ptr |-> w.ptr, cb |-> w.cb] ELSE NullRef

\* line 54: if (!result)
\* (variant that constructs without looking at the re-check)
NeedConstruct_Always(r) == TRUE
NeedConstruct(r) == r.ptr = Null

\* line 46, first half: the unlocked lock() loads the weak_ptr's control block.
ReadCb(t) ==
  /\ aborted = "" /\ pc[t] = "idle"
  /\ cbRead' = [cbRead EXCEPT ![t] = instance.cb]
  /\ startOpens' = [startOpens EXCEPT ![t] = nOpenOk]
  /\ startExpired' = [startExpired EXCEPT ![t] =
        nOpenOk > 0 /\ \A k \in InstIds : obj[k].state # "constructed"]
  /\ constructedBy' = [constructedBy EXCEPT ![t] = Null]
  /\ pc' = [pc EXCEPT ![t] = "L46"]
  /\ UNCHANGED <<ref, instance, mutex, use, cbst, obj, closes, nOpenAttempts, nSymCalls,
                 aborted, exported, usedClosed>>
  /\ UNCHANGED fwdvars

\* line 46, second half, and lines 47-50: increment-if-not-zero on the control
\* block that was loaded, then load the pointer; return if non-null.
\* The control block may have been freed meanwhile by line 57 of another
\* thread (unsynchronised with this read): the count read from freed
\* memory is arbitrary, so the lock() either fails or yields a shared_ptr
\* that owns nothing.
LockFast(t) ==
  /\ aborted = "" /\ pc[t] = "L46"
  /\ LET c == cbRead[t] IN
     \/ /\ IF c = Null THEN TRUE ELSE cbst[c] = "live" /\ use[c] = 0
        /\ ref' = [ref EXCEPT ![t] = NullRef]
        /\ pc' = [pc EXCEPT ![t] = "L52"]
        /\ UNCHANGED use
     \/ /\ c # Null /\ cbst[c] = "live" /\ use[c] > 0
        /\ use' = [use EXCEPT ![c] = @ + 1]
        /\ ref' = [ref EXCEPT ![t] = [ptr |-> instance.ptr, cb |-> c]]
        /\ pc' = [pc EXCEPT ![t] = "holding"]
     \/ /\ c # Null /\ cbst[c] = "freed"
        /\ \/ /\ ref' = [ref EXCEPT ![t] = NullRef]
              /\ pc' = [pc EXCEPT ![t] = "L52"]
           \/ /\ ref' = [ref EXCEPT ![t] = [ptr |-> instance.ptr, cb |-> c]]
              /\ pc' = [pc EXCEPT ![t] = "holding"]
        /\ UNCHANGED use
  /\ cbRead' = [cbRead EXCEPT ![t] = Null]
  /\ UNCHANGED <<startOpens, startExpired, constructedBy, instance, mutex, cbst,
                 obj, closes, nOpenAttempts, nSymCalls, aborted, exported, usedClosed>>
  /\ UNCHANGED fwdvars

\* line 52: std::lock_guard
Acquire(t) ==
  /\ aborted = "" /\ pc[t] = "L52" /\ mutex = 0
  /\ mutex' = t
  /\ pc' = [pc EXCEPT ![t] = "L53"]
  /\ UNCHANGED <<ref, cbRead, startOpens, startExpired, constructedBy, instance, use, cbst,
                 obj, closes, nOpenAttempts, nSymCalls, aborted, exported, usedClosed>>
  /\ UNCHANGED fwdvars

\* lines 53-54: re-check under the mutex (no writer can be active).
LockSlow(t) ==
  /\ aborted = "" /\ pc[t] = "L53"
  /\ LET r == LockResult(instance) IN
     IF NeedConstruct(r)
     THEN /\ pc' = [pc EXCEPT ![t] = "L56"]
          /\ UNCHANGED <<ref, use>>
     ELSE /\ ref' = [ref EXCEPT ![t] = r]
          /\ use' = [use EXCEPT ![r.cb] = @ + 1]
          /\ pc' = [pc EXCEPT ![t] = "L59"]
  /\ UNCHANGED <<cbRead, startOpens, startExpired, constructedBy, instance, mutex, cbst,
                 obj, closes, nOpenAttempts, nSymCalls, aborted, exported, usedClosed>>
  /\ UNCHANGED fwdvars

\* line 56 and the constructor (lines 62-99): dllOpen, the handle check,
\* the 25 symbol lookups, and the new control block with use count 1.
Construct(t) ==
  /\ aborted = "" /\ pc[t] = "L56"
  /\ nOpenOk < MaxInst
  /\ LET k == nOpenOk + 1 IN
     \E h \in {NullHandle, k} :
       /\ nOpenAttempts' = nOpenAttempts + 1
       /\ IF HandleOk(h)
          THEN /\ obj' = [obj EXCEPT ![k] = [state |-> "constructed", handle |-> h,
                                            syms |-> LoadSymTable(h, exported)]]
               /\ nSymCalls' = nSymCalls + NumSymbols
               /\ use' = [use EXCEPT ![k] = 1]
               /\ cbst' = [cbst EXCEPT ![k] = "live"]
               /\ ref' = [ref EXCEPT ![t] = [ptr |-> k, cb |-> k]]
               /\ constructedBy' = [constructedBy EXCEPT ![t] = k]
               /\ pc' = [pc EXCEPT ![t] = "L57a"]
               /\ UNCHANGED aborted
          ELSE /\ aborted' = FatalCheckFailure
               /\ UNCHANGED <<obj, nSymCalls, use, cbst, ref, constructedBy, pc>>
  /\ UNCHANGED <<cbRead, startOpens, startExpired, instance, mutex, closes, exported,
                 usedClosed>>
  /\ UNCHANGED fwdvars

\* line 57, first half: weak_ptr assignment stores the pointer ...
AssignPtr(t) ==
  /\ aborted = "" /\ pc[t] = "L57a"
  /\ instance' = [instance EXCEPT !.ptr = ref[t].ptr]
  /\ pc' = [pc EXCEPT ![t] = "L57b"]
  /\ UNCHANGED <<ref, cbRead, startOpens, startExpired, constructedBy, mutex, use, cbst, obj,
                 closes, nOpenAttempts, nSymCalls, aborted, exported, usedClosed>>
  /\ UNCHANGED fwdvars

\* ... line 57, second half: then drops the weak count of the previous control
\* block (freeing it, its use count being zero) and stores the new one.
AssignCb(t) ==
  /\ aborted = "" /\ pc[t] = "L57b"
  /\ LET old == instance.cb IN
     cbst' = IF old # Null /\ old # ref[t].cb /\ use[old] = 0
             THEN [cbst EXCEPT ![old] = "freed"] ELSE cbst
  /\ instance' = [instance EXCEPT !.cb = ref[t].cb]
  /\ pc' = [pc EXCEPT ![t] = "L59"]
  /\ UNCHANGED <<ref, cbRead, startOpens, startExpired, constructedBy, mutex, use, obj,
                 closes, nOpenAttempts, nSymCalls, aborted, exported, usedClosed>>
  /\ UNCHANGED fwdvars

\* line 59: return result; the lock_guard releases the mutex.
Return(t) ==
  /\ aborted = "" /\ pc[t] = "L59"
  /\ mutex' = 0
  /\ pc' = [pc EXCEPT ![t] = "holding"]
  /\ UNCHANGED <<ref, cbRead, startOpens, startExpired, constructedBy, instance, use, cbst,
                 obj, closes, nOpenAttempts, nSymCalls, aborted, exported, usedClosed>>
  /\ UNCHANGED fwdvars

(* ---------------- callers ---------------- *)

\* ~CUDADriverWrapper (lines 101-104): dllClose(handle).
Destroy(o) == [o EXCEPT !.state = "destroyed"]

\* The caller drops its shared_ptr.  Last owner: the destructor runs, and the
\* control block is freed unless the static weak_ptr still refers to it.
\* A shared_ptr whose control block is freed memory: decrementing it has no
\* effect on any live object, or crashes.
Release(t) ==
  /\ aborted = "" /\ pc[t] = "holding"
  /\ LET c == ref[t].cb IN
     \/ /\ cbst[c] = "live"
        /\ use' = [use EXCEPT ![c] = @ - 1]
        /\ IF use[c] = 1
           THEN /\ obj' = [obj EXCEPT ![c] = Destroy(@)]
                /\ closes' = [closes EXCEPT ![obj[c].handle] = @ + 1]
                /\ cbst' = IF instance.cb = c THEN cbst ELSE [cbst EXCEPT ![c] = "freed"]
           ELSE UNCHANGED <<obj, closes, cbst>>
        /\ UNCHANGED aborted
     \/ /\ cbst[c] = "freed"
        /\ \/ UNCHANGED aborted
           \/ aborted' = "crash"
        /\ UNCHANGED <<use, obj, closes, cbst>>
  /\ ref' = [ref EXCEPT ![t] = NullRef]
  /\ pc' = [pc EXCEPT ![t] = "idle"]
  /\ cbRead' = [cbRead EXCEPT ![t] = Null]
  /\ startOpens' = [startOpens EXCEPT ![t] = 0]
  /\ startExpired' = [startExpired EXCEPT ![t] = FALSE]
  /\ constructedBy' = [constructedBy EXCEPT ![t] = Null]
  /\ UNCHANGED <<instance, mutex,
                 nOpenAttempts, nSymCalls, exported, usedClosed>>
  /\ call' = NoCall
  /\ trace' = NoTrace

\* A caller invokes a forwarding method through the reference it holds:
\* the method dereferences the object's function pointer (lines 106-296).
UseDriver(t) ==
  /\ aborted = "" /\ pc[t] = "holding"
  /\ LET closed == closes[obj[ref[t].ptr].handle] > 0 IN
     usedClosed' = (usedClosed \/ closed)
  /\ UNCHANGED <<pc, ref, cbRead, startOpens, startExpired, constructedBy, instance, mutex,
                 use, cbst, obj, closes, nOpenAttempts, nSymCalls, aborted, exported>>
  /\ UNCHANGED fwdvars

(* ---------------- forwarding methods ---------------- *)

\* <<method, member it dereferences, parameters in signature order,
\*   arguments in the order the body passes them>>  (lines 106-218, 273-296)
MethodTable ==
  << <<"cuGetErrorName", "_cuGetErrorName", <<"error", "pStr">>, <<"error", "pStr">> >>,
     <<"cuGetErrorString", "_cuGetErrorString", <<"error", "pStr">>, <<"error", "pStr">> >>,
     <<"cuFuncSetAttribute", "_cuFuncSetAttribute",
       <<"hfunc", "attrib", "value">>, <<"hfunc", "attrib", "value">> >>,
     <<"cuLinkComplete", "_cuLinkComplete",
       <<"state", "cubinOut", "sizeOut">>, <<"state", "cubinOut", "sizeOut">> >>,
     <<"cuModuleUnload", "_cuModuleUnload", <<"hmod">>, <<"hmod">> >>,
     <<"cuLinkDestroy", "_cuLinkDestroy", <<"state">>, <<"state">> >>,
     <<"cuModuleLoadData", "_cuModuleLoadData", <<"module", "image">>, <<"module", "image">> >>,
     <<"cuLinkCreate", "_cuLinkCreate",
       <<"numOptions", "options", "optionValues", "stateOut">>,
       <<"numOptions", "options", "optionValues", "stateOut">> >>,
     <<"cuModuleGetFunction", "_cuModuleGetFunction",
       <<"hfunc", "hmod", "name">>, <<"hfunc", "hmod", "name">> >>,
     <<"cuModuleGetGlobal", "_cuModuleGetGlobal",
       <<"dptr", "bytes", "hmod", "name">>, <<"dptr", "bytes", "hmod", "name">> >>,
     <<"cuLibraryGetKernel", "_cuLibraryGetKernel",
       <<"pKernel", "library", "name">>, <<"pKernel", "library", "name">> >>,
     <<"cuLibraryLoadData", "_cuLibraryLoadData",
       <<"library", "code", "jitOptions", "jitOptionsValues", "numJitOptions",
         "libraryOptions", "libraryOptionValues", "numLibraryOptions">>,
       <<"library", "code", "jitOptions", "jitOptionsValues", "numJitOptions",
         "libraryOptions", "libraryOptionValues", "numLibraryOptions">> >>,
     <<"cuLibraryGetGlobal", "_cuLibraryGetGlobal",
       <<"dptr", "bytes", "library", "name">>, <<"dptr", "bytes", "library", "name">> >>,
     <<"cuLibraryUnload", "_cuLibraryUnload", <<"library">>, <<"library">> >>,
     <<"cuKernelSetAttribute", "_cuKernelSetAttribute",
       <<"attrib", "val", "kernel", "dev">>, <<"attrib", "val", "kernel", "dev">> >>,
     <<"cuCtxGetDevice", "_cuCtxGetDevice", <<"device">>, <<"device">> >>,
     <<"cuLinkAddFile", "_cuLinkAddFile",
       <<"state", "type", "path", "numOptions", "options", "optionValues">>,
       <<"state", "type", "path", "numOptions", "options", "optionValues">> >>,
     <<"cuLinkAddData", "_cuLinkAddData",
       <<"state", "type", "data", "size", "name", "numOptions", "options", "optionValues">>,
       <<"state", "type", "data", "size", "name", "numOptions", "options", "optionValues">> >>,
     <<"cuLaunchCooperativeKernel", "_cuLaunchCooperativeKernel",
       <<"f", "gridDimX", "gridDimY", "gridDimZ", "blockDimX", "blockDimY", "blockDimZ",
         "sharedMemBytes", "hStream", "kernelParams">>,
       <<"f", "gridDimX", "gridDimY", "gridDimZ", "blockDimX", "blockDimY", "blockDimZ",
         "sharedMemBytes", "hStream", "kernelParams">> >>,
     <<"cuLaunchKernel", "_cuLaunchKernel",
       <<"f", "gridDimX", "gridDimY", "gridDimZ", "blockDimX", "blockDimY", "blockDimZ",
         "sharedMemBytes", "hStream", "kernelParams", "extra">>,
       <<"f", "gridDimX", "gridDimY", "gridDimZ", "blockDimX", "blockDimY", "blockDimZ",
         "sharedMemBytes", "hStream", "kernelParams", "extra">> >>,
     <<"cuLaunchKernelEx", "_cuLaunchKernelEx",
       <<"config", "f", "kernelParams", "extra">>,
       <<"config", "f", "kernelParams", "extra">> >>,
     <<"cuTensorMapEncodeTiled", "_cuTensorMapEncodeTiled",
       <<"tensorMap", "tensorDataType", "tensorRank", "globalAddress", "globalDim",
         "globalStrides", "boxDim", "elementStrides", "interleave", "swizzle",
         "l2Promotion", "oobFill">>,
       <<"tensorMap", "tensorDataType", "tensorRank", "globalAddress", "globalDim",
         "globalStrides", "boxDim", "elementStrides", "interleave", "swizzle",
         "l2Promotion", "oobFill">> >>,
     <<"cuMemcpyDtoH", "_cuMemcpyDtoH",
       <<"dstHost", "srcDevice", "ByteCount">>, <<"dstHost", "srcDevice", "ByteCount">> >>,
     <<"cuDeviceGetAttribute", "_cuDeviceGetAttribute",
       <<"pi", "attrib", "dev">>, <<"pi", "attrib", "dev">> >>,
     <<"cuOccupancyMaxActiveClusters", "_cuOccupancyMaxActiveClusters",
       <<"maxActiveClusters", "f", "config">>, <<"maxActiveClusters", "f", "config">> >> >>

Methods == {MethodTable[i][1] : i \in 1..Len(MethodTable)}
MethodRow(m) == MethodTable[CHOOSE i \in 1..Len(MethodTable) : MethodTable[i][1] = m]
SlotOf(m) == MethodRow(m)[2]
Params(m) == MethodRow(m)[3]
CallArgs(m) == MethodRow(m)[4]

\* The argument list the function pointer receives: each passed name is
\* looked up among the method's parameters.
\* (variant that passes the arguments in reverse order)
ForwardArgs_Swapped(m, args) ==
  [i \in 1..Len(args) |-> args[Len(args) + 1 - i]]
ForwardArgs(m, args) ==
  [i \in 1..Len(CallArgs(m)) |->
     args[CHOOSE j \in 1..Len(Params(m)) : Params(m)[j] = CallArgs(m)[i]]]

\* Argument vectors the callers pass: position-revealing values.
ArgVectors(n) ==
  { [i \in 1..n |-> i], [i \in 1..n |-> 3 * (n + 1 - i)] }
ResultCodes == {0, 700}

\* return (*_slot)(args...): a null slot is a call through a null pointer.
Invoke(t, m, args, rc, dbg) ==
  LET p == obj[ref[t].ptr].syms[SlotOf(m)] IN
  IF p = NullSym
  THEN /\ aborted' = "crash"
       /\ UNCHANGED call
  ELSE /\ call' = [method |-> m, sym |-> p[2], argsIn |-> args,
                   argsOut |-> ForwardArgs(m, args), stubRc |-> rc, ret |-> rc,
                   debug |-> dbg, checkFired |-> FALSE]
       /\ UNCHANGED aborted

\* Any forwarding method except cuLaunchKernelEx.
Forward(t) ==
  /\ aborted = "" /\ pc[t] = "holding"
  /\ obj[ref[t].ptr].state = "constructed"
  /\ \E m \in Methods \ {"cuLaunchKernelEx"} :
     \E args \in ArgVectors(Len(Params(m))) :
     \E rc \in ResultCodes :
       Invoke(t, m, args, rc, FALSE)
  /\ trace' = NoTrace
  /\ UNCHANGED <<pc, ref, cbRead, startOpens, startExpired, constructedBy, instance, mutex,
                 use, cbst, obj, closes, nOpenAttempts, nSymCalls, exported, usedClosed>>

(* ---------------- stringify_launch_config ---------------- *)

CU_LAUNCH_ATTRIBUTE_CLUSTER_DIMENSION == 4
CU_LAUNCH_ATTRIBUTE_PRIORITY == 8

RECURSIVE Digits(_, _)
\* operator<< of a non-negative integer in the given base, most significant first.
Digits(n, base) ==
  IF n < base THEN <<n>> ELSE Digits(n \div base, base) \o <<n % base>>

Lit(str) == [kind |-> "lit", s |-> str, base |-> 0, digits |-> <<>>]
\* decimal before std::hex is inserted
Dec(n) == [kind |-> "num", s |-> "", base |-> 10, digits |-> Digits(n, 10)]
\* std::hex stays set on the stream; a negative int is printed as its
\* unsigned 32-bit value (8 digits, two's complement)
HexDigits(n) ==
  IF n >= 0 THEN Digits(n, 16)
  ELSE LET m == Digits(-n - 1, 16)
           pad == 8 - Len(m)
       IN [i \in 1..8 |-> 15 - (IF i <= pad THEN 0 ELSE m[i - pad])]
Hex(n) == [kind |-> "num", s |-> "", base |-> 16, digits |-> HexDigits(n)]

ClusterAttr(x, y, z) ==
  [id |-> CU_LAUNCH_ATTRIBUTE_CLUSTER_DIMENSION, clusterDim |-> <<x, y, z>>, priority |-> 0]
PriorityAttr(p) ==
  [id |-> CU_LAUNCH_ATTRIBUTE_PRIORITY, clusterDim |-> <<0, 0, 0>>, priority |-> p]
OtherAttr(i) == [id |-> i, clusterDim |-> <<0, 0, 0>>, priority |-> 0]

\* lines 244-255: the switch on attr.id
\* (variant without the default case)
AttrText_NoDefault(attr) ==
  IF attr.id = CU_LAUNCH_ATTRIBUTE_CLUSTER_DIMENSION
  THEN <<Lit("Cluster Dimension: ("), Hex(attr.clusterDim[1]), Lit(", "),
         Hex(attr.clusterDim[2]), Lit(", "), Hex(attr.clusterDim[3]), Lit(")")>>
  ELSE <<Lit("Priority: "), Hex(attr.priority)>>
AttrText(attr) ==
  CASE attr.id = CU_LAUNCH_ATTRIBUTE_CLUSTER_DIMENSION ->
         <<Lit("Cluster Dimension: ("), Hex(attr.clusterDim[1]), Lit(", "),
           Hex(attr.clusterDim[2]), Lit(", "), Hex(attr.clusterDim[3]), Lit(")")>>
    [] attr.id = CU_LAUNCH_ATTRIBUTE_PRIORITY ->
         <<Lit("Priority: "), Hex(attr.priority)>>
    [] OTHER ->
         <<Lit("Unknown Attribute (ID="), Hex(attr.id), Lit(")")>>

\* lines 222-260: the text, as a sequence of lines, each a sequence of the
\* pieces inserted into the stringstream.
stringify_launch_config(config) ==
  << <<Lit("Grid Dimensions: ("), Dec(config.gridDimX), Lit(", "), Dec(config.gridDimY),
       Lit(", "), Dec(config.gridDimZ), Lit(")\n")>>,
     <<Lit("Block Dimensions: ("), Dec(config.blockDimX), Lit(", "), Dec(config.blockDimY),
       Lit(", "), Dec(config.blockDimZ), Lit(")\n")>>,
     <<Lit("Shared Memory: "), Dec(config.sharedMemBytes), Lit(" bytes\n")>>,
     <<Lit("Stream: "), Lit(IF config.hStream # 0 THEN "Custom" ELSE "Default"),
       Lit(" (0x"), Hex(config.hStream), Lit(")\n")>>,
     <<Lit("Attributes ("), Hex(config.numAttrs), Lit("):\n")>> >>
  \o [i \in 1..config.numAttrs |->
        <<Lit("  ["), Hex(i - 1), Lit("] ")>> \o AttrText(config.attrs[i]) \o <<Lit("\n")>>]

\* Launch configurations the callers pass.
LaunchConfigs ==
  << [gridDimX |-> 1, gridDimY |-> 1, gridDimZ |-> 1,
      blockDimX |-> 32, blockDimY |-> 1, blockDimZ |-> 1,
      sharedMemBytes |-> 0, hStream |-> 0, attrs |-> <<>>, numAttrs |-> 0],
     [gridDimX |-> 16, gridDimY |-> 2, gridDimZ |-> 1,
      blockDimX |-> 256, blockDimY |-> 1, blockDimZ |-> 1,
      sharedMemBytes |-> 49152, hStream |-> 255,
      attrs |-> <<ClusterAttr(2, 1, 1)>>, numAttrs |-> 1],
     [gridDimX |-> 10, gridDimY |-> 11, gridDimZ |-> 12,
      blockDimX |-> 128, blockDimY |-> 2, blockDimZ |-> 1,
      sharedMemBytes |-> 1024, hStream |-> 0,
      attrs |-> <<PriorityAttr(-1), ClusterAttr(16, 1, 1), OtherAttr(3)>>, numAttrs |-> 3],
     [gridDimX |-> 132, gridDimY |-> 1, gridDimZ |-> 1,
      blockDimX |-> 384, blockDimY |-> 1, blockDimZ |-> 1,
      sharedMemBytes |-> 232448, hStream |-> 4096,
      attrs |-> <<OtherAttr(12), PriorityAttr(10)>>, numAttrs |-> 1],
     [gridDimX |-> 2, gridDimY |-> 3, gridDimZ |-> 4,
      blockDimX |-> 64, blockDimY |-> 1, blockDimZ |-> 1,
      sharedMemBytes |-> 16, hStream |-> 77,
      attrs |-> <<PriorityAttr(26), OtherAttr(0), ClusterAttr(4, 2, 1), PriorityAttr(0)>>,
      numAttrs |-> 4] >>

(* ---------------- cuLaunchKernelEx ---------------- *)

\* TLLM_LOG_DEBUG("Launch config: %s", ...): the text reaches the logger
\* when the debug level is enabled.
TLLM_LOG_DEBUG(enabled, cfg, text) ==
  IF enabled THEN [cfg |-> cfg, text |-> text] ELSE NoTrace

\* lines 268-269: the condition of TLLM_CHECK_DEBUG_WITH_INFO
\* (variant that accepts both being set)
LaunchArgsOk_Either(kernelParams, extra) == (extra # 0) \/ (kernelParams # 0)
LaunchArgsOk(kernelParams, extra) == (extra # 0) # (kernelParams # 0)

\* lines 263-271.  debug: the build enables TLLM_CHECK_DEBUG_WITH_INFO;
\* logDebug: the logger's level enables TLLM_LOG_DEBUG.
cuLaunchKernelEx(t) ==
  /\ aborted = "" /\ pc[t] = "holding"
  /\ obj[ref[t].ptr].state = "constructed"
  /\ \E cfg \in 1..Len(LaunchConfigs) :
     \E kernelParams \in {0, 5} :
     \E extra \in {0, 6} :
     \E rc \in ResultCodes :
     \E debug \in BOOLEAN :
     \E logDebug \in BOOLEAN :
       /\ trace' = TLLM_LOG_DEBUG(logDebug, cfg, stringify_launch_config(LaunchConfigs[cfg]))
       /\ IF DebugCheckFires(debug, LaunchArgsOk(kernelParams, extra))
          THEN /\ call' = [method |-> "cuLaunchKernelEx", sym |-> "",
                           argsIn |-> <<cfg, 3, kernelParams, extra>>, argsOut |-> <<>>,
                           stubRc |-> 0, ret |-> 0, debug |-> TRUE, checkFired |-> TRUE]
               /\ UNCHANGED aborted
          ELSE Invoke(t, "cuLaunchKernelEx", <<cfg, 3, kernelParams, extra>>, rc, debug)
  /\ UNCHANGED <<pc, ref, cbRead, startOpens, startExpired, constructedBy, instance, mutex,
                 use, cbst, obj, closes, nOpenAttempts, nSymCalls, exported, usedClosed>>

Next ==
  \E t \in Threads :
    \/ ReadCb(t) \/ LockFast(t) \/ Acquire(t) \/ LockSlow(t) \/ Construct(t)
    \/ AssignPtr(t) \/ AssignCb(t) \/ Return(t) \/ Release(t) \/ UseDriver(t)

Spec == Init /\ [][Next]_vars

\* One caller against a stub driver library that may lack symbols: the
\* whole life cycle plus every forwarding method.
Caller == CHOOSE t \in Threads : \A u \in Threads : t <= u
InitFwd ==
  /\ pc = [t \in Threads |-> "idle"]
  /\ ref = [t \in Threads |-> NullRef]
  /\ cbRead = [t \in Threads |-> Null]
  /\ startOpens = [t \in Threads |-> 0]
  /\ startExpired = [t \in Threads |-> FALSE]
  /\ constructedBy = [t \in Threads |-> Null]
  /\ instance = NullRef
  /\ mutex = 0
  /\ use = [k \in InstIds |-> 0]
  /\ cbst = [k \in InstIds |-> "none"]
  /\ obj = [k \in InstIds |-> NoObj]
  /\ closes = [h \in 0..MaxInst |-> 0]
  /\ nOpenAttempts = 0
  /\ nSymCalls = 0
  /\ aborted = ""
  /\ exported \in LibVariants
  /\ usedClosed = FALSE
  /\ call = NoCall
  /\ trace = NoTrace

NextFwd ==
  \/ ReadCb(Caller) \/ LockFast(Caller) \/ Acquire(Caller) \/ LockSlow(Caller)
  \/ Construct(Caller) \/ AssignPtr(Caller) \/ AssignCb(Caller) \/ Return(Caller)
  \/ Release(Caller) \/ Forward(Caller) \/ cuLaunchKernelEx(Caller)

SpecFwd == InitFwd /\ [][NextFwd]_vars

(* ---------------- lifecycle properties ---------------- *)

Holding == {t \in Threads : pc[t] = "holding"}
\* Threads whose shared_ptr (local result or returned reference) points to k.
RefsTo(k) == {t \in Threads : ref[t].ptr = k}
Built == {k \in InstIds : obj[k].state # "none"}
TotalCloses == closes[0] + Cardinality({h \in 1..MaxInst : closes[h] >= 1})
              + Cardinality({h \in 1..MaxInst : closes[h] >= 2})

NoneDestroyed == \A k \in InstIds : obj[k].state # "destroyed"

\* C1: while the threads make their first getInstance() calls (nothing has
\* been destroyed yet), the library is opened at most once, every caller
\* that has returned holds the same instance, and once all have returned
\* exactly one construction has happened.
C1_SingleConstruction ==
  NoneDestroyed =>
    /\ nOpenOk <= 1
    /\ nSymCalls <= NumSymbols
    /\ \A t, u \in Holding : ref[t] = ref[u] /\ ref[t].ptr # Null
    /\ (Holding = Threads => nOpenOk = 1 /\ \A t \in Threads : ref[t] = [ptr |-> 1, cb |-> 1])

C1_Witness ==
  /\ NoneDestroyed /\ Holding = Threads /\ nOpenOk = 1 /\ use[1] = NThreads
  /\ \E t \in Threads : constructedBy[t] = Null

\* C2: an instance is destroyed exactly when no shared_ptr refers to it, and
\* no forwarding call by a holder runs on an instance whose handle is closed.
C2_DestroyedIffUnreferenced ==
  /\ \A k \in Built : (obj[k].state = "destroyed") <=> (RefsTo(k) = {})
  /\ ~usedClosed

\* C3: a call that began when every reference had been released (the instance
\* built last was destroyed and no other exists) returns an
\* instance that was constructed after the call began, on a handle that no
\* earlier instance used, with its whole symbol table resolved against that
\* handle; the call that constructs returns the instance it constructed.
C3_FreshAfterExpiry ==
  \A t \in Holding :
    /\ startExpired[t] =>
         LET k == ref[t].ptr IN
         /\ k > startOpens[t]
         /\ nOpenAttempts > startOpens[t]
         /\ nSymCalls >= NumSymbols * (startOpens[t] + 1)
         /\ \A j \in 1..startOpens[t] : obj[j].handle # obj[k].handle
         /\ \A s \in Slots : obj[k].syms[s] # NullSym => obj[k].syms[s][1] = obj[k].handle
    /\ constructedBy[t] # Null =>
         /\ ref[t].ptr = constructedBy[t]
         /\ obj[ref[t].ptr].state = "constructed"
         /\ closes[obj[ref[t].ptr].handle] = 0

C3_Witness ==
  \E t \in Holding : startExpired[t] /\ constructedBy[t] = 2 /\ ref[t].ptr = 2

\* C4: every handle is closed at most once, never while a shared_ptr still
\* refers to its instance, and closes never outnumber successful opens.
C4_ClosedOnceAtLastRelease ==
  /\ \A k \in Built :
       /\ closes[obj[k].handle] <= 1
       /\ closes[obj[k].handle] = 1 => RefsTo(k) = {}
  /\ TotalCloses <= nOpenOk

\* C5 (as stated): no instance is handed to a caller with a null pointer.
C5_AllPointersNonNull ==
  \A t \in Holding :
    obj[ref[t].ptr].state = "constructed" =>
      \A s \in Slots : obj[ref[t].ptr].syms[s] # NullSym

\* C5 (amended): every slot of a constructed instance was assigned during
\* construction (25 lookups per successful open): it is non-null exactly
\* when the library exports the slot's symbol and then points into the
\* instance's own handle; an open that fails ends the process.
C5_SlotsFollowLibrary ==
  /\ \A k \in Built :
       \A i \in 1..NumSymbols :
         LET p == obj[k].syms[SymbolTable[i][1]] IN
         /\ (p # NullSym) <=> (SymbolTable[i][2] \in exported)
         /\ p # NullSym => p[1] = obj[k].handle
  /\ nSymCalls = NumSymbols * nOpenOk
  /\ nOpenAttempts > nOpenOk => aborted = FatalCheckFailure

C5_Witness ==
  \E t \in Holding :
    /\ obj[ref[t].ptr].state = "constructed"
    /\ obj[ref[t].ptr].syms["_cuLaunchKernelEx"] = NullSym
    /\ obj[ref[t].ptr].syms["_cuLaunchKernel"] # NullSym
    /\ call.method = "cuLaunchKernel"

\* C6: a null handle from dllOpen ends construction at once: one open
\* attempt, no symbol lookup, no object built on the null handle, nothing
\* returned or recorded, and dllClose is never called on the null handle.
C6_NullHandleFailsFast ==
  /\ \A k \in Built : obj[k].handle # NullHandle
  /\ closes[NullHandle] = 0
  /\ nOpenAttempts > nOpenOk =>
       /\ aborted = "open"
       /\ nOpenAttempts = nOpenOk + 1
       /\ nSymCalls = NumSymbols * nOpenOk
       /\ \E t \in Threads : pc[t] = "L56" /\ mutex = t
       /\ \A t \in Threads : pc[t] = "L56" => ref[t] = NullRef /\ constructedBy[t] = Null
       /\ instance.ptr \in Built \cup {Null}

C6_Witness ==
  /\ aborted = "open" /\ nOpenOk = 1 /\ instance.ptr = 1
  /\ nOpenAttempts = 2

(* ---------------- forwarding properties ---------------- *)

V2Methods == {"cuLinkCreate", "cuModuleGetGlobal", "cuLinkAddFile", "cuLinkAddData",
              "cuMemcpyDtoH"}
ExpectedSymbol(m) == IF m \in V2Methods THEN m \o "_v2" ELSE m

\* C7: a forwarded call runs the library's symbol for that operation (the
\* "_v2" symbol for the five versioned operations), the symbol receives the
\* caller's arguments in the same order and number, and the caller receives
\* the result code the symbol returned.
C7_ForwardingFidelity ==
  (call.method # "" /\ ~call.checkFired) =>
    /\ call.sym = ExpectedSymbol(call.method)
    /\ Len(call.argsOut) = Len(Params(call.method))
    /\ call.argsOut = call.argsIn
    /\ call.ret = call.stubRc

C7_Witness ==
  /\ call.method = "cuLinkAddData" /\ call.sym = "cuLinkAddData_v2"
  /\ call.argsIn = <<1, 2, 3, 4, 5, 6, 7, 8>> /\ call.ret = 700

\* C8: in a debug build cuLaunchKernelEx's check fires exactly when
\* kernelParams and extra are both null or both non-null; when exactly one is
\* non-null the call reaches the driver and its result code is returned.
C8_LaunchCheck ==
  (call.method = "cuLaunchKernelEx" /\ call.debug) =>
    LET kernelParams == call.argsIn[3]
        extra == call.argsIn[4]
        both == kernelParams # 0 /\ extra # 0
        neither == kernelParams = 0 /\ extra = 0
    IN /\ call.checkFired <=> (both \/ neither)
       /\ ~call.checkFired =>
            /\ call.sym = "cuLaunchKernelEx"
            /\ call.argsOut = call.argsIn
            /\ call.ret = call.stubRc

C8_Witness ==
  /\ call.method = "cuLaunchKernelEx" /\ call.debug /\ call.checkFired
  /\ call.argsIn[3] # 0 /\ call.argsIn[4] # 0

RECURSIVE Value(_, _)
\* The number a digit string denotes in a base.
Value(ds, base) ==
  IF ds = <<>> THEN 0 ELSE Value(SubSeq(ds, 1, Len(ds) - 1), base) * base + ds[Len(ds)]
\* ... read as a 32-bit two's complement value when it has 8 hex digits.
TokenValue(tok) ==
  IF tok.base = 16 /\ Len(tok.digits) = 8 /\ tok.digits[1] >= 8
  THEN -Value([i \in 1..8 |-> 15 - tok.digits[i]], 16) - 1
  ELSE Value(tok.digits, tok.base)
IsNum(tok) == tok.kind = "num"
IsLit(tok) == tok.kind = "lit"
NumsOf(line) == LET ns == SelectSeq(line, IsNum) IN [i \in 1..Len(ns) |-> TokenValue(ns[i])]
LitsOf(line) == LET ls == SelectSeq(line, IsLit) IN [i \in 1..Len(ls) |-> ls[i].s]

\* C9: the text produced for a launch configuration has, in order, the grid
\* dimensions, the block dimensions, the shared-memory byte count, the
\* stream identity, the attribute count, and one line per attribute in index
\* order, of the kind the attribute's id selects; an unrecognised id gives
\* an "Unknown Attribute" line with the id.
C9_TraceRendersConfig ==
  trace.cfg # 0 =>
    LET c == LaunchConfigs[trace.cfg]
        text == trace.text
    IN /\ Len(text) = 5 + c.numAttrs
       /\ LitsOf(text[1])[1] = "Grid Dimensions: ("
       /\ NumsOf(text[1]) = <<c.gridDimX, c.gridDimY, c.gridDimZ>>
       /\ LitsOf(text[2])[1] = "Block Dimensions: ("
       /\ NumsOf(text[2]) = <<c.blockDimX, c.blockDimY, c.blockDimZ>>
       /\ LitsOf(text[3])[1] = "Shared Memory: "
       /\ NumsOf(text[3]) = <<c.sharedMemBytes>>
       /\ LitsOf(text[4])[1] = "Stream: "
       /\ LitsOf(text[4])[2] = (IF c.hStream = 0 THEN "Default" ELSE "Custom")
       /\ NumsOf(text[4]) = <<c.hStream>>
       /\ LitsOf(text[5])[1] = "Attributes ("
       /\ NumsOf(text[5]) = <<c.numAttrs>>
       /\ \A i \in 0..(c.numAttrs - 1) :
            LET ln == text[6 + i]
                a == c.attrs[i + 1]
            IN /\ NumsOf(ln)[1] = i
               /\ CASE a.id = CU_LAUNCH_ATTRIBUTE_CLUSTER_DIMENSION ->
                         /\ LitsOf(ln)[3] = "Cluster Dimension: ("
                         /\ Tail(NumsOf(ln)) = a.clusterDim
                    [] a.id = CU_LAUNCH_ATTRIBUTE_PRIORITY ->
                         /\ LitsOf(ln)[3] = "Priority: "
                         /\ Tail(NumsOf(ln)) = <<a.priority>>
                    [] OTHER ->
                         /\ LitsOf(ln)[3] = "Unknown Attribute (ID="
                         /\ Tail(NumsOf(ln)) = <<a.id>>

C9_Witness ==
  /\ trace.cfg = 3 /\ Len(trace.text) = 8
  /\ LitsOf(trace.text[8])[3] = "Unknown Attribute (ID="

\* C10: all references held by callers refer to the same instance.
C10_HoldersAgree ==
  \A t, u \in Holding : ref[t].ptr = ref[u].ptr
====
